---- MODULE Spec2Model ----
(***************************************************************************)
(* State-machine model of the streaming bridge of src/bridge_server.py:    *)
(* one POST /v1/chat/completions request, the async generator              *)
(* stream_agent_responses that serves it, the websocket session it opens   *)
(* to the agent runtime, and the HTTP consumer that pulls (or abandons)    *)
(* the generator.                                                          *)
(*                                                                         *)
(* A JSON object is modelled by its fields; an optional key is a sequence  *)
(* that is empty when the key is absent and <<v>> when it is present.      *)
(* The "created" timestamp of a chunk is not modelled.                     *)
(***************************************************************************)
EXTENDS Integers, Sequences, FiniteSets, TLC

VARIABLES request, response, pc, user_message, channel, remote, sent,
          received, frames, idle, log, cancelledAt,
          peer,
          environ, flags, extension, commands, invocations, outcome

\* the installer of src/openhands/cli/vscode_extension.py
installer == <<environ, flags, extension, commands, invocations, outcome>>

\* what no step of the request modelled in full touches: the second,
\* concurrent request and the installer
others == <<peer, installer>>

vars == <<request, response, pc, user_message, channel, remote, sent,
          received, frames, idle, log, cancelledAt, others>>

(***************************************************************************)
(* Bounds of the model and constants of the program.                       *)
(***************************************************************************)
\* the agent runtime sends at most MaxMsgs messages in one session (Spec)
MaxMsgs == 2
\* granularity of the clock: time advances TickStep units per Tick
TickStep == 5
\* asyncio.wait_for(websocket.recv(), timeout=20.0)
IdleTimeout == 20

Null == "null"

Min(a, b) == IF a < b THEN a ELSE b

(***************************************************************************)
(* Requests: ChatCompletionRequest{model, messages, stream}.               *)
(***************************************************************************)
ChatMessage(r, c) == [role |-> r, content |-> c]

ChatCompletionRequest(ms, s) == [model |-> "gpt-oh", messages |-> ms, stream |-> s]

MessageLists ==
  { <<ChatMessage("system", "be brief"), ChatMessage("user", "hi")>>,
    <<ChatMessage("user", "first"), ChatMessage("assistant", "ok"),
      ChatMessage("user", "second")>>,
    <<ChatMessage("system", "be brief")>> }

Requests ==
  { ChatCompletionRequest(ms, TRUE) : ms \in MessageLists }
    \cup { ChatCompletionRequest(<<ChatMessage("user", "hi")>>, FALSE) }

\* FirstUserContent without the break of line 37: the last user message wins
RECURSIVE FirstUserContent_Last(_)
FirstUserContent_Last(ms) ==
  IF ms = <<>> THEN ""
  ELSE IF ms[Len(ms)].role = "user" THEN ms[Len(ms)].content
  ELSE FirstUserContent_Last(SubSeq(ms, 1, Len(ms) - 1))

\* lines 33-37: the content of the first message with role "user", else ""
RECURSIVE FirstUserContent(_)
FirstUserContent(ms) ==
  IF ms = <<>> THEN ""
  ELSE IF Head(ms).role = "user" THEN Head(ms).content
  ELSE FirstUserContent(Tail(ms))

\* Envelope without the wrapper of line 54: message_action is sent as it is
Envelope_Bare(content) ==
  [action |-> "MessageAction",
   data |-> [action |-> "MessageAction",
             args |-> [content |-> content, source |-> "user"]]]

\* lines 46-54: the envelope handed to websocket.send
Envelope(content) ==
  [action |-> "oh_user_action",
   data |-> [action |-> "MessageAction",
             args |-> [content |-> content, source |-> "user"]]]

(***************************************************************************)
(* Inbound messages: the text frames the runtime may send.  json says what *)
(* json.loads makes of the text: "invalid" (it raises), "number" (a JSON   *)
(* number), "array" (a JSON array of numbers) or "object".                 *)
(***************************************************************************)
RawMessage(j, obs, act, content, command) ==
  [json |-> j, observation |-> obs, action |-> act, content |-> content,
   command |-> command]

Messages ==
  { RawMessage("invalid", <<>>, <<>>, <<>>, <<>>),
    RawMessage("number", <<>>, <<>>, <<>>, <<>>),
    RawMessage("array", <<>>, <<>>, <<>>, <<>>),
    RawMessage("object", <<>>, <<>>, <<>>, <<>>),
    RawMessage("object", <<"AgentThinkObservation">>, <<>>, <<"thinking...">>, <<>>),
    RawMessage("object", <<"AgentThinkObservation">>, <<>>, <<"">>, <<>>),
    RawMessage("object", <<"AgentThinkObservation">>, <<>>, <<>>, <<>>),
    RawMessage("object", <<>>, <<"CmdRunAction">>, <<>>, <<"ls -la">>),
    RawMessage("object", <<>>, <<"CmdRunAction">>, <<>>, <<>>),
    RawMessage("object", <<"AgentThinkObservation">>, <<"CmdRunAction">>, <<"both">>, <<"pwd">>),
    RawMessage("object", <<"CmdOutputObservation">>, <<>>, <<"total 0">>, <<>>) }

\* the Markdown code fence of line 65, three backquotes (U+0060), written with
\* apostrophes because a TLA+ string cannot hold a backquote
Fence == "'''"

\* CommandTemplate without the blank line after the closing fence
CommandTemplate_NoTrailing(command) ==
  "\n\nRunning command:\n" \o Fence \o "bash\n" \o command \o "\n" \o Fence

\* line 65: the f-string of the CmdRunAction branch
CommandTemplate(command) ==
  "\n\nRunning command:\n" \o Fence \o "bash\n" \o command \o "\n" \o Fence \o "\n\n"

\* lines 59-65: json.loads and the two branches; raised is TRUE when the
\* statement raises (JSONDecodeError, TypeError of the in-test on a number, KeyError)
Raised == [raised |-> TRUE, content_chunk |-> ""]

Computed(c) == [raised |-> FALSE, content_chunk |-> c]

\* ContentChunk forwarding the content of any observation
ContentChunk_AnyObservation(m) ==
  IF m.json = "invalid" THEN Raised
  ELSE IF m.json = "number" THEN Raised
  ELSE IF m.observation # <<>>
    THEN IF m.content = <<>> THEN Raised ELSE Computed(m.content[1])
  ELSE IF m.action = <<"CmdRunAction">>
    THEN IF m.command = <<>> THEN Raised ELSE Computed(CommandTemplate(m.command[1]))
  ELSE Computed("")

\* ContentChunk with a final else that raises on an unknown kind
ContentChunk_Strict(m) ==
  IF m.json = "invalid" THEN Raised
  ELSE IF m.json = "number" THEN Raised
  ELSE IF m.observation = <<"AgentThinkObservation">>
    THEN IF m.content = <<>> THEN Raised ELSE Computed(m.content[1])
  ELSE IF m.action = <<"CmdRunAction">>
    THEN IF m.command = <<>> THEN Raised ELSE Computed(CommandTemplate(m.command[1]))
  ELSE Raised

\* ContentChunk ending the thought with a line break
ContentChunk_Newline(m) ==
  IF m.json = "invalid" THEN Raised
  ELSE IF m.json = "number" THEN Raised
  ELSE IF m.observation = <<"AgentThinkObservation">>
    THEN IF m.content = <<>> THEN Raised ELSE Computed(m.content[1] \o "\n")
  ELSE IF m.action = <<"CmdRunAction">>
    THEN IF m.command = <<>> THEN Raised ELSE Computed(CommandTemplate(m.command[1]))
  ELSE Computed("")

ContentChunk(m) ==
  IF m.json = "invalid" THEN Raised
  ELSE IF m.json = "number" THEN Raised
  ELSE IF m.observation = <<"AgentThinkObservation">>
    THEN IF m.content = <<>> THEN Raised ELSE Computed(m.content[1])
  ELSE IF m.action = <<"CmdRunAction">>
    THEN IF m.command = <<>> THEN Raised ELSE Computed(CommandTemplate(m.command[1]))
  ELSE Computed("")

\* lines 68-80: a chunk; delta is the set of the (key, value) pairs of the object
Chunk(model, delta, finish_reason) ==
  [id |-> "chatcmpl-123", object |-> "chat.completion.chunk", model |-> model,
   choices |-> <<[index |-> 0, delta |-> delta, finish_reason |-> finish_reason]>>]

ContentFrame(model, content_chunk) ==
  Chunk(model, {<<"content", content_chunk>>}, Null)

\* lines 93-105
DoneChunk(model) == Chunk(model, {}, "stop")

\* Emits without the test of line 67: every message yields a chunk
Emits_Always(content_chunk) == TRUE

\* line 67: the truth value of a str is whether it is non-empty
Emits(content_chunk) == content_chunk # ""

(***************************************************************************)
(* The installer of src/openhands/cli/vscode_extension.py.  The process    *)
(* environment is the three variables the code reads by name; every other  *)
(* variable of os.environ is taken not to contain "windsurf".  A variable  *)
(* that is not set is the empty string, which equals and contains none of  *)
(* the strings tested.                                                     *)
(***************************************************************************)
Environment(term, bundle, path) ==
  [TERM_PROGRAM |-> term, CFBundleIdentifier |-> bundle, PATH |-> path]

Environments ==
  { Environment("vscode", "", "/usr/bin"),
    Environment("vscode", "", "/opt/Windsurf/bin"),
    Environment("xterm", "com.exafunction.windsurf", "/usr/bin"),
    Environment("xterm", "", "/usr/bin") }

\* 'windsurf' in val.lower(), for the values above
ContainsWindsurf(val) == val \in {"com.exafunction.windsurf", "/opt/Windsurf/bin"}

\* line 14
IsVscodeLike(env) == env.TERM_PROGRAM = "vscode"

\* lines 15-23
IsWindsurf(env) ==
  \/ env.CFBundleIdentifier = "com.exafunction.windsurf"
  \/ ContainsWindsurf(env.PATH)
  \/ \E name \in DOMAIN env : ContainsWindsurf(env[name])

\* line 24
Supported(env) == IsVscodeLike(env) \/ IsWindsurf(env)

\* lines 28-31
Editor(env) ==
  IF IsWindsurf(env)
    THEN [editor_command |-> "surf", editor_name |-> "Windsurf", flag_suffix |-> "windsurf"]
    ELSE [editor_command |-> "code", editor_name |-> "VS Code", flag_suffix |-> "vscode"]

\* line 35: the flag files there can be, named by their suffix
FlagSuffixes == {"vscode", "windsurf"}

\* line 36
extension_id == "openhands.openhands-vscode"

\* what subprocess.run gives for an editor command: <<returncode>>, or <<>>
\* when the call raised (the command is not on PATH)
ExitCodes == {0, 1}
Runs == { <<code>> : code \in ExitCodes } \cup { <<>> }

\* lines 99-107: the lines of stdout of --list-extensions
ListedExtensions(installed) ==
  IF installed THEN {"ms-python.python", extension_id} ELSE {"ms-python.python"}

\* lines 98-111
IsExtensionInstalled(run, installed) ==
  run = <<0>> /\ extension_id \in ListedExtensions(installed)

\* BundledInstall without the test of line 145: any exit is a success
BundledInstall_AnyExit(vsix_exists, run) == vsix_exists /\ run # <<>>

\* lines 126-161: whether _attempt_bundled_install returns True
BundledInstall(vsix_exists, run) == vsix_exists /\ run = <<0>>

(***************************************************************************)
(* The state.                                                              *)
(*   pc          where the generator stands:                               *)
(*               "Idle"       the request has not been dispatched          *)
(*               "Connecting" awaiting websockets.connect (line 45)        *)
(*               "Sending"    channel open, awaiting websocket.send (54)   *)
(*               "Receiving"  awaiting wait_for(websocket.recv()) (58)     *)
(*               "Yielding"   suspended at the yield of a chunk (81)       *)
(*               "Draining"   past the try statement (92)                  *)
(*               "Finishing"  suspended at the yield of the done chunk     *)
(*               "Closed"     the generator has returned                   *)
(*               "Cancelled"  the generator was closed at a suspension     *)
(*               "Rejected"   the request was not a streaming request      *)
(*   channel     "none", "open" or "closed": the websocket of line 45      *)
(*   remote      the agent runtime: "live" (may still send), "quiet" (will *)
(*               send nothing more) or "closed" (it closed the connection) *)
(*   sent        what was sent on the channel                              *)
(*   received    the messages websocket.recv() returned                    *)
(*   frames      the chunks yielded to the HTTP response                   *)
(*   idle        time since the pending wait_for started                   *)
(*   log         the lines printed                                         *)
(*   cancelledAt the value of pc when the generator was cancelled          *)
(*   peer        a second request served concurrently by the same code: of *)
(*               it the model keeps where its generator stands and its     *)
(*               channel, not its messages, frames or clock                *)
(*   environ, flags, extension, commands, invocations, outcome             *)
(*               the installer, described with its actions                 *)
(***************************************************************************)
InitBridge ==
  /\ request \in Requests
  /\ response = "none"
  /\ pc = "Idle"
  /\ user_message = ""
  /\ channel = "none"
  /\ remote = "live"
  /\ sent = <<>>
  /\ received = <<>>
  /\ frames = <<>>
  /\ idle = 0
  /\ log = <<>>
  /\ cancelledAt = "none"
  /\ peer = [pc |-> "Idle", channel |-> "none"]

\* the bridge server: it does not run the installer
Init ==
  /\ InitBridge
  /\ environ = Environment("xterm", "", "/usr/bin")
  /\ flags = {}
  /\ extension = FALSE
  /\ commands = <<>>
  /\ invocations = 0
  /\ outcome = "none"

\* ChatCompletions without the test of line 111: every request is streamed
ChatCompletions_AlwaysStream ==
  /\ pc = "Idle"
  /\ response' = "event-stream"
  /\ user_message' = FirstUserContent(request.messages)
  /\ log' = Append(log, "User message")
  /\ pc' = "Connecting"
  /\ UNCHANGED <<others, request, channel, remote, sent, received, frames, idle, cancelledAt>>

\* lines 109-116 and 33-39: the endpoint; a streaming request starts the
\* generator, which runs to its first await
ChatCompletions ==
  /\ pc = "Idle"
  /\ IF request.stream
       THEN /\ response' = "event-stream"
            /\ user_message' = FirstUserContent(request.messages)
            /\ log' = Append(log, "User message")
            /\ pc' = "Connecting"
       ELSE /\ response' = "not implemented"
            /\ pc' = "Rejected"
            /\ UNCHANGED <<user_message, log>>
  /\ UNCHANGED <<others, request, channel, remote, sent, received, frames, idle, cancelledAt>>

\* line 45: the connection is established
ConnectOk ==
  /\ pc = "Connecting"
  /\ channel' = "open"
  /\ pc' = "Sending"
  /\ UNCHANGED <<others, request, response, user_message, remote, sent, received, frames,
                 idle, log, cancelledAt>>

\* ConnectFail with the handler of line 89 reporting the failure to the client
ConnectFail_ErrorFrame ==
  /\ pc = "Connecting"
  /\ log' = Append(log, "Error connecting to WebSocket")
  /\ frames' = Append(frames, ContentFrame(request.model, "Error connecting to WebSocket"))
  /\ pc' = "Draining"
  /\ UNCHANGED <<others, request, response, user_message, channel, remote, sent, received,
                 idle, cancelledAt>>

\* lines 45, 89-90: websockets.connect raises
ConnectFail ==
  /\ pc = "Connecting"
  /\ log' = Append(log, "Error connecting to WebSocket")
  /\ pc' = "Draining"
  /\ UNCHANGED <<others, request, response, user_message, channel, remote, sent, received,
                 frames, idle, cancelledAt>>

\* line 54: the envelope is sent; the loop starts its first wait_for
SendOk ==
  /\ pc = "Sending"
  /\ remote # "closed"
  /\ sent' = Append(sent, Envelope(user_message))
  /\ idle' = 0
  /\ pc' = "Receiving"
  /\ UNCHANGED <<others, request, response, user_message, channel, remote, received, frames,
                 log, cancelledAt>>

\* SendFail inside a retry loop: the channel is closed and connect is tried again
SendFail_Reconnect ==
  /\ pc = "Sending"
  /\ channel' = "closed"
  /\ pc' = "Connecting"
  /\ UNCHANGED <<others, request, response, user_message, remote, sent, received, frames,
                 idle, log, cancelledAt>>

\* lines 54, 45, 89-90: websocket.send raises; the with statement closes the
\* channel and the outer handler logs
SendFail ==
  /\ pc = "Sending"
  /\ channel' = "closed"
  /\ log' = Append(log, "Error connecting to WebSocket")
  /\ pc' = "Draining"
  /\ UNCHANGED <<others, request, response, user_message, remote, sent, received, frames,
                 idle, cancelledAt>>

\* lines 59-90: what the loop body does with the message recv() returned
Process(m) ==
  LET r == ContentChunk(m) IN
  IF r.raised
    THEN /\ channel' = "closed"
         /\ log' = Append(log, "Error connecting to WebSocket")
         /\ pc' = "Draining"
         /\ idle' = 0
         /\ frames' = frames
    ELSE IF Emits(r.content_chunk)
      THEN /\ frames' = Append(frames, ContentFrame(request.model, r.content_chunk))
           /\ pc' = "Yielding"
           /\ idle' = 0
           /\ UNCHANGED <<channel, log>>
      ELSE /\ pc' = "Receiving"
           /\ idle' = 0
           /\ UNCHANGED <<channel, log, frames>>

\* line 58: a message arrives before the timeout
Recv ==
  /\ pc = "Receiving"
  /\ remote = "live"
  /\ idle < IdleTimeout
  /\ Len(received) < MaxMsgs
  /\ \E m \in Messages :
       /\ received' = Append(received, m)
       /\ Process(m)
  /\ UNCHANGED <<others, request, response, user_message, remote, sent, cancelledAt>>

\* time passes while recv() is pending
Tick ==
  /\ pc = "Receiving"
  /\ idle < IdleTimeout
  /\ idle' = Min(idle + TickStep, IdleTimeout)
  /\ UNCHANGED <<others, request, response, pc, user_message, channel, remote, sent,
                 received, frames, log, cancelledAt>>

\* Timeout with return written for break: the generator ends at once
Timeout_Return ==
  /\ pc = "Receiving"
  /\ idle = IdleTimeout
  /\ log' = Append(log, "Timeout waiting for agent response.")
  /\ channel' = "closed"
  /\ idle' = 0
  /\ pc' = "Closed"
  /\ UNCHANGED <<others, request, response, user_message, remote, sent, received, frames,
                 cancelledAt>>

\* Timeout without the handler of lines 83-85: TimeoutError reaches line 89
Timeout_Error ==
  /\ pc = "Receiving"
  /\ idle = IdleTimeout
  /\ log' = Append(log, "Error connecting to WebSocket")
  /\ channel' = "closed"
  /\ idle' = 0
  /\ pc' = "Draining"
  /\ UNCHANGED <<others, request, response, user_message, remote, sent, received, frames,
                 cancelledAt>>

\* Timeout with a handler that is only continue: the loop waits again
Timeout_Continue ==
  /\ pc = "Receiving"
  /\ idle = IdleTimeout
  /\ idle' = 0
  /\ UNCHANGED <<others, request, response, pc, user_message, channel, remote, sent,
                 received, frames, log, cancelledAt>>

\* lines 58, 83-85: wait_for raises TimeoutError; break leaves the with statement
Timeout ==
  /\ pc = "Receiving"
  /\ idle = IdleTimeout
  /\ log' = Append(log, "Timeout waiting for agent response.")
  /\ channel' = "closed"
  /\ idle' = 0
  /\ pc' = "Draining"
  /\ UNCHANGED <<others, request, response, user_message, remote, sent, received, frames,
                 cancelledAt>>

\* RecvClosed with the loop outside a with statement: nothing closes the channel
RecvClosed_Leak ==
  /\ pc = "Receiving"
  /\ remote = "closed"
  /\ log' = Append(log, "Connection closed by server.")
  /\ idle' = 0
  /\ pc' = "Draining"
  /\ UNCHANGED <<others, request, response, user_message, channel, remote, sent, received,
                 frames, cancelledAt>>

\* lines 58, 86-88: recv() raises ConnectionClosed
RecvClosed ==
  /\ pc = "Receiving"
  /\ remote = "closed"
  /\ log' = Append(log, "Connection closed by server.")
  /\ channel' = "closed"
  /\ idle' = 0
  /\ pc' = "Draining"
  /\ UNCHANGED <<others, request, response, user_message, remote, sent, received, frames,
                 cancelledAt>>

\* lines 58, 89-90: recv() raises another exception
RecvError ==
  /\ pc = "Receiving"
  /\ log' = Append(log, "Error connecting to WebSocket")
  /\ channel' = "closed"
  /\ idle' = 0
  /\ pc' = "Draining"
  /\ UNCHANGED <<others, request, response, user_message, remote, sent, received, frames,
                 cancelledAt>>

\* line 81: the consumer asks for the next chunk; the loop starts a new wait_for
Resume ==
  /\ pc = "Yielding"
  /\ idle' = 0
  /\ pc' = "Receiving"
  /\ UNCHANGED <<others, request, response, user_message, channel, remote, sent, received,
                 frames, log, cancelledAt>>

\* lines 92-106: the done chunk is yielded
EmitDone ==
  /\ pc = "Draining"
  /\ frames' = Append(frames, DoneChunk(request.model))
  /\ pc' = "Finishing"
  /\ UNCHANGED <<others, request, response, user_message, channel, remote, sent, received,
                 idle, log, cancelledAt>>

\* line 106: the consumer asks for the next chunk and the generator returns
Finish ==
  /\ pc = "Finishing"
  /\ pc' = "Closed"
  /\ UNCHANGED <<others, request, response, user_message, channel, remote, sent, received,
                 frames, idle, log, cancelledAt>>

\* the points at which the generator is suspended
Suspended == {"Connecting", "Sending", "Receiving", "Yielding", "Finishing"}

\* Cancel with the channel opened by a plain call and closed after the loop
Cancel_Leak ==
  /\ pc \in Suspended
  /\ cancelledAt' = pc
  /\ idle' = 0
  /\ pc' = "Cancelled"
  /\ UNCHANGED <<others, request, response, user_message, channel, remote, sent, received,
                 frames, log>>

\* the consumer goes away: CancelledError or GeneratorExit is raised at the
\* suspension point; neither is an Exception (line 89), the with statement of
\* line 45 closes the channel on the way out
Cancel ==
  /\ pc \in Suspended
  /\ cancelledAt' = pc
  /\ channel' = IF channel = "open" THEN "closed" ELSE channel
  /\ idle' = 0
  /\ pc' = "Cancelled"
  /\ UNCHANGED <<others, request, response, user_message, remote, sent, received, frames, log>>

\* the runtime has sent the last message of its turn
RemoteQuiesce ==
  /\ channel = "open"
  /\ remote = "live"
  /\ remote' = "quiet"
  /\ UNCHANGED <<others, request, response, pc, user_message, channel, sent, received,
                 frames, idle, log, cancelledAt>>

\* the runtime closes the connection
RemoteClose ==
  /\ channel = "open"
  /\ remote # "closed"
  /\ remote' = "closed"
  /\ UNCHANGED <<others, request, response, pc, user_message, channel, sent, received,
                 frames, idle, log, cancelledAt>>

Next ==
  \/ ChatCompletions
  \/ ConnectOk
  \/ ConnectFail
  \/ SendOk
  \/ SendFail
  \/ Recv
  \/ Tick
  \/ Timeout
  \/ RecvClosed
  \/ RecvError
  \/ Resume
  \/ EmitDone
  \/ Finish
  \/ Cancel
  \/ RemoteQuiesce
  \/ RemoteClose

Spec == Init /\ [][Next]_vars

(***************************************************************************)
(* The unbounded runtime.  Spec stops the runtime after MaxMsgs messages   *)
(* to keep received and frames finite.  In LiveSpec the runtime may go on  *)
(* sending: line 58 returns the message and lines 59-90 handle it as in    *)
(* Process, but received and frames, which the program does not keep,      *)
(* record no more than the first MaxMsgs messages and their frames.        *)
(***************************************************************************)
RecvUnrecorded ==
  /\ pc = "Receiving"
  /\ remote = "live"
  /\ idle < IdleTimeout
  /\ Len(received) = MaxMsgs
  /\ \E m \in Messages :
       LET r == ContentChunk(m) IN
       IF r.raised
         THEN /\ channel' = "closed"
              /\ log' = Append(log, "Error connecting to WebSocket")
              /\ pc' = "Draining"
         ELSE /\ pc' = IF Emits(r.content_chunk) THEN "Yielding" ELSE "Receiving"
              /\ UNCHANGED <<channel, log>>
  /\ idle' = 0
  /\ UNCHANGED <<others, request, response, user_message, remote, sent, received, frames,
                 cancelledAt>>

NextLive == Next \/ RecvUnrecorded

\* The event loop runs every coroutine that is ready and its timers fire:
\* connect and send return, time keeps passing while a receive is pending
\* (strong fairness: no infinite run takes zero time), wait_for times out, a
\* closed connection is reported, and the HTTP layer keeps asking a connected
\* client's generator for its next chunk.  Nothing obliges the runtime to
\* send, fall silent or close, the transport to fail, or the client to
\* disconnect.
Fairness ==
  /\ WF_vars(ChatCompletions)
  /\ WF_vars(ConnectOk \/ ConnectFail)
  /\ WF_vars(SendOk \/ SendFail)
  /\ SF_vars(Tick)
  /\ WF_vars(Timeout)
  /\ WF_vars(RecvClosed)
  /\ WF_vars(Resume)
  /\ WF_vars(EmitDone)
  /\ WF_vars(Finish)

LiveSpec == Init /\ [][NextLive]_vars /\ Fairness

(***************************************************************************)
(* Vocabulary of the properties.                                           *)
(***************************************************************************)
IsTerminal(f) ==
  f.choices[1].delta = {} /\ f.choices[1].finish_reason = "stop"

Terminals == {i \in DOMAIN frames : IsTerminal(frames[i])}

Logged(line) == \E i \in DOMAIN log : log[i] = line

IsThink(m) == m.json = "object" /\ m.observation = <<"AgentThinkObservation">>

IsCmd(m) == m.json = "object" /\ m.action = <<"CmdRunAction">>

Malformed(m) ==
  \/ m.json # "object"
  \/ m.observation = <<"AgentThinkObservation">> /\ m.content = <<>>
  \/ m.action = <<"CmdRunAction">> /\ m.command = <<>>

(***************************************************************************)
(* C1: when the generator of a streaming request has run to its end, it    *)
(* has emitted exactly one terminal frame, and at every moment a terminal  *)
(* frame is the last frame emitted: nothing follows it.                    *)
(***************************************************************************)
C1_OneTerminalFrameLast ==
  /\ \A i \in Terminals : i = Len(frames)
  /\ pc \in {"Finishing", "Closed"} => Cardinality(Terminals) = 1

\* a session that emitted a frame and then ended on a message that raised
C1_Witness ==
  /\ pc = "Closed"
  /\ Len(frames) = 2
  /\ Logged("Error connecting to WebSocket")
  /\ Len(received) = 2

(***************************************************************************)
(* C2: a malformed message is skipped: after receiving it the bridge is    *)
(* still receiving on the same open channel.                               *)
(***************************************************************************)
C2_MalformedSkipped ==
  [][\A m \in Messages :
       (pc = "Receiving" /\ received' = Append(received, m) /\ Malformed(m))
         => (pc' = "Receiving" /\ channel' = "open")]_vars

(***************************************************************************)
(* C3: once the terminal frame has been emitted, or is about to be, the    *)
(* channel is not open.                                                    *)
(***************************************************************************)
C3_ReleasedBeforeTerminal ==
  (Terminals # {} \/ pc = "Draining") => channel # "open"

\* the terminal frame of a session the remote side closed
C3_Witness ==
  /\ Terminals # {}
  /\ channel = "closed"
  /\ Logged("Connection closed by server.")

(***************************************************************************)
(* C4: a generator that has terminated, by cancellation at a suspension    *)
(* point or by returning, has no open channel.                             *)
(***************************************************************************)
C4_NoOrphanedChannel ==
  pc \in {"Cancelled", "Closed", "Rejected"} => channel # "open"

\* cancelled while a frame was being written, the channel was open
C4_Witness ==
  /\ pc = "Cancelled"
  /\ cancelledAt = "Yielding"
  /\ channel = "closed"

(***************************************************************************)
(* C5 as claimed: every request eventually terminates, whatever the        *)
(* runtime does.                                                           *)
(***************************************************************************)
Terminated == pc \in {"Closed", "Cancelled", "Rejected"}

C5_AlwaysTerminates == <>Terminated

(***************************************************************************)
(* C5 as amended: once the runtime has fallen silent or has closed the     *)
(* connection, the request terminates.                                     *)
(***************************************************************************)
C5_TerminatesOnceRuntimeStops == (remote # "live") ~> Terminated

\* a request that ran to Closed by the idle timeout after the runtime fell silent
C5_Witness ==
  /\ remote = "quiet"
  /\ pc = "Closed"
  /\ Logged("Timeout waiting for agent response.")

(***************************************************************************)
(* C6: the idle timeout.  A pending receive never waits longer than        *)
(* IdleTimeout and every receive restarts the wait.  When IdleTimeout has  *)
(* elapsed with no message, no message is received and no frame emitted at *)
(* that point, and the bridge can end the receive sequence by the timeout  *)
(* path.  Once it has, no error is logged, nothing more is received and    *)
(* the only frame emitted afterwards is the terminal frame; if nothing was *)
(* received at all the stream is the terminal frame alone.                 *)
(***************************************************************************)
TimedOut == Logged("Timeout waiting for agent response.")

Expired == pc = "Receiving" /\ idle = IdleTimeout

C6_IdleTimeout ==
  /\ [](idle <= IdleTimeout)
  /\ [](Expired =>
          ENABLED (/\ Next
                   /\ pc' = "Draining"
                   /\ log' = Append(log, "Timeout waiting for agent response.")))
  /\ [](TimedOut =>
          /\ pc \in {"Draining", "Finishing", "Closed", "Cancelled"}
          /\ ~Logged("Error connecting to WebSocket")
          /\ channel = "closed")
  /\ [](TimedOut /\ received = <<>> /\ pc \in {"Finishing", "Closed"}
          => frames = <<DoneChunk(request.model)>>)
  /\ [][/\ received' # received => idle' = 0
        /\ Expired => received' = received /\ frames' = frames
        /\ TimedOut => /\ received' = received
                       /\ frames' # frames =>
                            frames' = Append(frames, DoneChunk(request.model))]_vars

\* connect, nothing arrives for IdleTimeout, the stream is the terminal frame
C6_Witness ==
  /\ TimedOut
  /\ received = <<>>
  /\ pc = "Closed"
  /\ frames = <<DoneChunk(request.model)>>

(***************************************************************************)
(* C7: the non-terminal frames are, in order, the fragments of the         *)
(* received messages of the two known kinds; at every moment every         *)
(* received message that has a fragment has its frame, and no other        *)
(* message has one.                                                        *)
(***************************************************************************)
\* the fragment of section 4.3 for one message, as a sequence of zero or one
Fragment(m) ==
  IF IsThink(m) /\ m.content # <<>> /\ m.content # <<"">> THEN m.content
  ELSE IF ~IsThink(m) /\ IsCmd(m) /\ m.command # <<>>
    THEN <<CommandTemplate(m.command[1])>>
  ELSE <<>>

RECURSIVE Fragments(_)
Fragments(ms) ==
  IF ms = <<>> THEN <<>> ELSE Fragment(Head(ms)) \o Fragments(Tail(ms))

ContentOf(f) == (CHOOSE kv \in f.choices[1].delta : kv[1] = "content")[2]

RECURSIVE NonTerminalContents(_)
NonTerminalContents(fs) ==
  IF fs = <<>> THEN <<>>
  ELSE IF IsTerminal(Head(fs)) THEN NonTerminalContents(Tail(fs))
  ELSE <<ContentOf(Head(fs))>> \o NonTerminalContents(Tail(fs))

C7_FramesInArrivalOrder ==
  NonTerminalContents(frames) = Fragments(received)

\* a command, then a thought: their two frames in that order
C7_Witness ==
  /\ Len(received) = 2
  /\ IsCmd(received[1]) /\ ~IsThink(received[1]) /\ received[1].command # <<>>
  /\ IsThink(received[2]) /\ received[2].content = <<"thinking...">>
  /\ NonTerminalContents(frames) =
       <<CommandTemplate(received[1].command[1]), received[2].content[1]>>

(***************************************************************************)
(* C8: a JSON object of neither known kind emits no frame and does not end *)
(* the receive sequence: the bridge is receiving again on the open channel *)
(* with the idle wait restarted, and a message of a known kind that        *)
(* arrives next still gets its frame.                                      *)
(***************************************************************************)
Ignored(m) == m.json = "object" /\ ~IsThink(m) /\ ~IsCmd(m)

C8_OtherKindSkipped ==
  [][\A m \in Messages :
       (pc = "Receiving" /\ received' = Append(received, m)) =>
         /\ Ignored(m) =>
              /\ frames' = frames
              /\ pc' = "Receiving"
              /\ idle' = 0
              /\ channel' = "open"
              /\ log' = log
         /\ (received # <<>> /\ Ignored(received[Len(received)])
               /\ Fragment(m) # <<>>) =>
              /\ Len(frames') = Len(frames) + 1
              /\ ContentOf(frames'[Len(frames')]) = Fragment(m)[1]]_vars

\* an ignored observation, then a thought that got its frame
C8_Witness ==
  /\ Len(received) = 2
  /\ Ignored(received[1])
  /\ IsThink(received[2])
  /\ Len(frames) = 1
  /\ pc = "Yielding"

(***************************************************************************)
(* C9 as claimed: every AgentThinkObservation message with a content field *)
(* yields one frame carrying that content, the empty string included.      *)
(***************************************************************************)
C9_ThinkVerbatimAlways ==
  [][\A m \in Messages :
       (pc = "Receiving" /\ received' = Append(received, m)
          /\ IsThink(m) /\ m.content # <<>>)
         => frames' = Append(frames, ContentFrame(request.model, m.content[1]))]_vars

(***************************************************************************)
(* C9 as amended: every AgentThinkObservation message with a non-empty     *)
(* content yields exactly one frame, non-terminal, carrying that content   *)
(* unchanged; one whose content is the empty string yields no frame and    *)
(* the bridge goes on receiving.                                           *)
(***************************************************************************)
C9_ThinkVerbatimNonEmpty ==
  [][\A m \in Messages :
       (pc = "Receiving" /\ received' = Append(received, m)
          /\ IsThink(m) /\ m.content # <<>>)
         => IF m.content[1] # ""
              THEN /\ frames' = Append(frames, ContentFrame(request.model, m.content[1]))
                   /\ ~IsTerminal(frames'[Len(frames')])
              ELSE frames' = frames /\ pc' = "Receiving" /\ channel' = "open"]_vars

\* a thought with content was received and its frame is the last one emitted
C9_Witness ==
  /\ pc = "Yielding"
  /\ received # <<>>
  /\ IsThink(received[Len(received)])
  /\ received[Len(received)].content = <<"thinking...">>
  /\ ContentOf(frames[Len(frames)]) = "thinking..."

(***************************************************************************)
(* C10: every frame is either a non-terminal frame, with finish_reason     *)
(* null and a delta that is exactly one non-empty content, or the terminal *)
(* frame, with an empty delta and finish_reason "stop", of which there is  *)
(* at most one.                                                            *)
(***************************************************************************)
IsContentFrame(f) ==
  /\ f.choices[1].finish_reason = Null
  /\ Cardinality(f.choices[1].delta) = 1
  /\ \A kv \in f.choices[1].delta : kv[1] = "content" /\ kv[2] # ""

C10_FrameShapes ==
  /\ \A i \in DOMAIN frames :
       /\ IsContentFrame(frames[i]) \/ IsTerminal(frames[i])
       /\ frames[i].choices[1].delta = {} <=> frames[i].choices[1].finish_reason = "stop"
  /\ Cardinality(Terminals) <= 1

\* a stream of one content frame and the terminal frame, an empty thought skipped
C10_Witness ==
  /\ pc = "Closed"
  /\ Len(frames) = 2
  /\ \E i \in DOMAIN received : received[i].content = <<"">> /\ IsThink(received[i])

(***************************************************************************)
(* C11: the content of the envelope sent is the content of the first       *)
(* message of the request with role "user"; a request with no user message *)
(* is streamed like any other, its envelope carrying the empty string.     *)
(***************************************************************************)
UserIndices(ms) == {i \in DOMAIN ms : ms[i].role = "user"}

FirstUser(ms) ==
  IF UserIndices(ms) = {} THEN ""
  ELSE ms[CHOOSE i \in UserIndices(ms) : \A j \in UserIndices(ms) : i <= j].content

LastUser(ms) ==
  IF UserIndices(ms) = {} THEN ""
  ELSE ms[CHOOSE i \in UserIndices(ms) : \A j \in UserIndices(ms) : i >= j].content

C11_FirstUserForwarded ==
  /\ \A i \in DOMAIN sent :
       sent[i].data.args.content = FirstUser(request.messages)
  /\ (request.stream /\ pc # "Idle") =>
       /\ user_message = FirstUser(request.messages)
       /\ response = "event-stream"
  /\ (request.stream /\ UserIndices(request.messages) = {} /\ pc = "Connecting")
       => ENABLED ConnectOk
  /\ (request.stream /\ UserIndices(request.messages) = {} /\ pc = "Sending"
        /\ remote # "closed") => ENABLED SendOk

\* two user messages: the envelope carries the first and not the last
C11_Witness ==
  /\ Cardinality(UserIndices(request.messages)) = 2
  /\ Len(sent) = 1
  /\ sent[1].data.args.content = "first"
  /\ sent[1].data.args.content # LastUser(request.messages)

(***************************************************************************)
(* C12: the content of the envelope sent is the content of the last        *)
(* message of the request with role "user", the most recent one.           *)
(***************************************************************************)
C12_LastUserForwarded ==
  \A i \in DOMAIN sent : sent[i].data.args.content = LastUser(request.messages)

(***************************************************************************)
(* C13: a request with stream = false is answered with the "not            *)
(* implemented" body and nothing else happens: no generator, no channel,   *)
(* nothing sent or received, no frame.                                     *)
(***************************************************************************)
C13_NonStreamingRejected ==
  ~request.stream =>
    /\ pc \in {"Idle", "Rejected"}
    /\ pc = "Rejected" <=> response = "not implemented"
    /\ response \in {"none", "not implemented"}
    /\ channel = "none"
    /\ sent = <<>> /\ received = <<>> /\ frames = <<>> /\ log = <<>>

\* the non-streaming request has been answered
C13_Witness ==
  /\ ~request.stream
  /\ pc = "Rejected"
  /\ response = "not implemented"
  /\ channel = "none" /\ frames = <<>>

(***************************************************************************)
(* C14: when the connect or the send has failed, the bridge goes straight  *)
(* to the terminal frame: it never connects or sends again, receives       *)
(* nothing, the response stays the event stream, the generator can go on   *)
(* to its end, and the stream is the terminal frame alone.                 *)
(***************************************************************************)
\* the try statement was left before anything was sent
FailedBeforeStreaming ==
  request.stream /\ sent = <<>> /\ pc \in {"Draining", "Finishing", "Closed"}

C14_FailureShortCircuits ==
  /\ [](FailedBeforeStreaming =>
          /\ received = <<>>
          /\ channel # "open"
          /\ log = <<"User message", "Error connecting to WebSocket">>
          /\ response = "event-stream"
          /\ pc = "Draining" => frames = <<>> /\ ENABLED EmitDone
          /\ pc = "Finishing" => frames = <<DoneChunk(request.model)>> /\ ENABLED Finish
          /\ pc = "Closed" => frames = <<DoneChunk(request.model)>>)
  /\ []((sent = <<>> /\ channel = "closed") =>
          pc \in {"Draining", "Finishing", "Closed", "Cancelled"})
  /\ []((request.stream /\ channel = "none") =>
          pc \in {"Idle", "Connecting", "Draining", "Finishing", "Closed", "Cancelled"})
  /\ [][FailedBeforeStreaming =>
          /\ sent' = sent /\ received' = received /\ channel' = channel
          /\ pc' \in {"Draining", "Finishing", "Closed", "Cancelled"}]_vars

\* the send failed on the open channel and the generator ran to its end
C14_Witness ==
  /\ pc = "Closed"
  /\ channel = "closed"
  /\ sent = <<>>
  /\ frames = <<DoneChunk(request.model)>>

(***************************************************************************)
(* C15: a CmdRunAction message that is not also an AgentThinkObservation   *)
(* yields exactly one non-terminal frame whose content is: two newlines,   *)
(* "Running command:", newline, the fence with "bash", newline, the        *)
(* command unchanged, newline, the fence, two newlines.  A message with    *)
(* both tags yields at most one frame, the one of the observation branch.  *)
(***************************************************************************)
FencedCommand(command) ==
  "\n\n" \o "Running command:" \o "\n"
    \o Fence \o "bash" \o "\n" \o command \o "\n" \o Fence \o "\n\n"

C15_CommandTemplate ==
  [][\A m \in Messages :
       (pc = "Receiving" /\ received' = Append(received, m) /\ IsCmd(m)) =>
         /\ (~IsThink(m) /\ m.command # <<>>) =>
              /\ frames' = Append(frames,
                             ContentFrame(request.model, FencedCommand(m.command[1])))
              /\ ~IsTerminal(frames'[Len(frames')])
              /\ pc' = "Yielding"
         /\ (IsThink(m) /\ m.content # <<>>) =>
              IF m.content[1] # ""
                THEN frames' = Append(frames, ContentFrame(request.model, m.content[1]))
                ELSE frames' = frames]_vars

\* "ls -la" was received and its frame is the literal of the template
C15_Witness ==
  /\ pc = "Yielding"
  /\ received # <<>>
  /\ received[Len(received)].command = <<"ls -la">>
  /\ ~IsThink(received[Len(received)])
  /\ ContentOf(frames[Len(frames)]) = "\n\nRunning command:\n'''bash\nls -la\n'''\n\n"

(***************************************************************************)
(* The controller of section 4.5 of the specification, read off pc.        *)
(***************************************************************************)
Controller ==
  CASE pc = "Idle" -> "Idle"
    [] pc \in {"Connecting", "Sending"} -> "Connecting"
    [] pc \in {"Receiving", "Yielding"} -> "Streaming"
    [] pc \in {"Draining", "Finishing"} -> "Draining"
    [] pc = "Closed" -> "Closed"
    [] pc = "Cancelled" -> "Cancelled"
    [] pc = "Rejected" -> "Rejected"

ListedTransitions ==
  { <<"Idle", "Connecting">>, <<"Connecting", "Streaming">>,
    <<"Connecting", "Draining">>, <<"Streaming", "Draining">>,
    <<"Draining", "Closed">> }

CancelTransitions ==
  { <<"Connecting", "Cancelled">>, <<"Streaming", "Cancelled">>,
    <<"Draining", "Cancelled">> }

(***************************************************************************)
(* C17 as claimed: the controller of a streaming request takes only the    *)
(* five listed transitions.                                                *)
(***************************************************************************)
C17_OnlyListedTransitions ==
  [][request.stream =>
       (Controller' = Controller \/ <<Controller, Controller'>> \in ListedTransitions)]_vars

(***************************************************************************)
(* C17 as amended: the controller of a streaming request takes only the    *)
(* five listed transitions, each under its condition, or, when the client  *)
(* disconnects, stops where it is (Connecting, Streaming or Draining) with *)
(* the channel released and no further frame.  Non-terminal frames are     *)
(* emitted only in Streaming, messages are received only in Streaming, and *)
(* neither Closed nor a cancelled controller is ever left.                 *)
(***************************************************************************)
C17_TransitionsWithCancel ==
  [][request.stream =>
       /\ \/ Controller' = Controller
          \/ <<Controller, Controller'>> \in ListedTransitions \cup CancelTransitions
       /\ (Controller = "Connecting" /\ Controller' = "Streaming") =>
            channel' = "open" /\ Len(sent') = 1 /\ sent = <<>>
       /\ (Controller = "Connecting" /\ Controller' = "Draining") =>
            sent' = <<>> /\ channel' # "open"
       /\ (Controller = "Streaming" /\ Controller' = "Draining") =>
            channel' = "closed" /\ frames' = frames
       /\ (Controller = "Draining" /\ Controller' = "Closed") =>
            Terminals # {} /\ channel # "open"
       /\ Controller' = "Cancelled" => channel' # "open" /\ frames' = frames
       /\ (frames' # frames /\ ~IsTerminal(frames'[Len(frames')])) =>
            Controller = "Streaming" /\ Controller' = "Streaming"
       /\ received' # received => Controller = "Streaming"
       /\ Controller \in {"Closed", "Cancelled"} => pc' = pc]_vars

\* Idle, Connecting, Streaming with two frames, Draining by the timeout, Closed
C17_Witness ==
  /\ pc = "Closed"
  /\ Len(frames) = 3
  /\ TimedOut

(***************************************************************************)
(* C18: on the channel the bridge sends one message and no more, the       *)
(* envelope {action: "oh_user_action", data: {action: "MessageAction",     *)
(* args: {content, source: "user"}}}; it is sent before the first receive  *)
(* attempt, and from then on the bridge only receives.                     *)
(***************************************************************************)
C18_SingleSendThenReceive ==
  /\ [](Len(sent) <= 1)
  /\ [](\A i \in DOMAIN sent :
          sent[i] = [action |-> "oh_user_action",
                     data |-> [action |-> "MessageAction",
                               args |-> [content |-> user_message,
                                         source |-> "user"]]])
  /\ []((pc \in {"Receiving", "Yielding"} \/ received # <<>>) => Len(sent) = 1)
  /\ [][/\ sent' # sent =>
             /\ pc = "Sending" /\ channel = "open"
             /\ sent = <<>> /\ received = <<>>
             /\ pc' = "Receiving"
        /\ received' # received => sent' = sent /\ Len(sent) = 1]_vars

\* one envelope sent, two messages received after it
C18_Witness ==
  /\ Len(sent) = 1
  /\ sent[1].action = "oh_user_action"
  /\ sent[1].data.args.source = "user"
  /\ Len(received) = 2

(***************************************************************************)
(* C19: whatever ended a session in which no message produced a fragment   *)
(* (connect failure, idle timeout, remote close, a message that raised),   *)
(* the client gets the same thing: the event stream with the terminal      *)
(* frame alone, which depends on the request only.                         *)
(***************************************************************************)
C19_FailuresIndistinguishable ==
  (pc \in {"Finishing", "Closed"} /\ Fragments(received) = <<>>) =>
    /\ response = "event-stream"
    /\ frames = <<Chunk(request.model, {}, "stop")>>
    /\ \/ channel = "none" /\ sent = <<>>
       \/ channel = "closed" /\ sent = <<>>
       \/ channel = "closed" /\ Len(sent) = 1 /\ TimedOut
       \/ channel = "closed" /\ Len(sent) = 1 /\ Logged("Connection closed by server.")
       \/ channel = "closed" /\ Len(sent) = 1 /\ Logged("Error connecting to WebSocket")

\* a session ended by a message that is not JSON: the terminal frame alone
C19_Witness ==
  /\ pc = "Closed"
  /\ Len(received) = 1
  /\ received[1].json = "invalid"
  /\ frames = <<DoneChunk(request.model)>>
  /\ response = "event-stream"

(***************************************************************************)
(* A second request served concurrently.  Every call of                    *)
(* stream_agent_responses has its own request, user_message, websocket,    *)
(* message and content_chunk (locals of lines 32-106); the module defines  *)
(* no other mutable object, and print writes to the one standard output.   *)
(* The actions below are those of the request above, for the second        *)
(* request, keeping of it only peer.pc and peer.channel: its inbound       *)
(* messages are not kept (one that yields nothing changes nothing), and    *)
(* its timeout and the close of its connection may come at any time.       *)
(***************************************************************************)
\* the state of the first request apart from the shared standard output
own == <<request, response, pc, user_message, channel, remote, sent, received,
         frames, idle, cancelledAt>>

PeerGoes(from, to, ch, lines) ==
  /\ peer.pc \in from
  /\ peer' = [pc |-> to, channel |-> ch]
  /\ log' = log \o lines
  /\ UNCHANGED <<own, installer>>

\* lines 109-112, 33-39
PeerChatCompletions ==
  PeerGoes({"Idle"}, "Connecting", "none", <<"User message">>)

\* line 45
PeerConnectOk == PeerGoes({"Connecting"}, "Sending", "open", <<>>)

\* lines 45, 89-90
PeerConnectFail ==
  PeerGoes({"Connecting"}, "Draining", "none", <<"Error connecting to WebSocket">>)

\* line 54
PeerSendOk == PeerGoes({"Sending"}, "Receiving", "open", <<>>)

\* lines 54, 89-90
PeerSendFail ==
  PeerGoes({"Sending"}, "Draining", "closed", <<"Error connecting to WebSocket">>)

\* lines 58-81: a message that yields a chunk
PeerRecvChunk == PeerGoes({"Receiving"}, "Yielding", "open", <<>>)

\* lines 58-65, 89-90: a message that raises, or recv() raising
PeerRecvRaise ==
  PeerGoes({"Receiving"}, "Draining", "closed", <<"Error connecting to WebSocket">>)

\* PeerTimeout with the websocket kept in a module-level variable that the
\* requests share: leaving the with statement closes it for both
PeerTimeout_SharedSocket ==
  /\ peer.pc = "Receiving"
  /\ peer' = [pc |-> "Draining", channel |-> "closed"]
  /\ channel' = IF channel = "open" THEN "closed" ELSE channel
  /\ log' = Append(log, "Timeout waiting for agent response.")
  /\ UNCHANGED <<request, response, pc, user_message, remote, sent, received,
                 frames, idle, cancelledAt, installer>>

\* lines 58, 83-85
PeerTimeout ==
  PeerGoes({"Receiving"}, "Draining", "closed", <<"Timeout waiting for agent response.">>)

\* lines 58, 86-88
PeerRecvClosed ==
  PeerGoes({"Receiving"}, "Draining", "closed", <<"Connection closed by server.">>)

\* line 81
PeerResume == PeerGoes({"Yielding"}, "Receiving", "open", <<>>)

\* lines 92-106
PeerEmitDone == PeerGoes({"Draining"}, "Finishing", peer.channel, <<>>)

\* line 106
PeerFinish == PeerGoes({"Finishing"}, "Closed", peer.channel, <<>>)

\* cancellation at a suspension point
PeerCancel ==
  PeerGoes(Suspended, "Cancelled",
           IF peer.channel = "open" THEN "closed" ELSE peer.channel, <<>>)

NextConc ==
  \/ Next
  \/ PeerChatCompletions
  \/ PeerConnectOk
  \/ PeerConnectFail
  \/ PeerSendOk
  \/ PeerSendFail
  \/ PeerRecvChunk
  \/ PeerRecvRaise
  \/ PeerTimeout
  \/ PeerRecvClosed
  \/ PeerResume
  \/ PeerEmitDone
  \/ PeerFinish
  \/ PeerCancel

\* two requests in flight: the first one the streaming request with a system
\* and a user message, or the non-streaming one (the second request is rejected or served
\* by the same lines, and only its streaming case has any state to share)
InitConc ==
  /\ Init
  /\ request \in { r \in Requests : ~r.stream \/ Len(r.messages) = 2 }

ConcSpec == InitConc /\ [][NextConc]_vars

(***************************************************************************)
(* C16: two streaming requests served concurrently, in any interleaving,   *)
(* each open and own their own channel and share no bridge state: the      *)
(* frames of a request are those of its own model and of the messages      *)
(* received on its own channel, a channel is open only while its own       *)
(* request is between connecting and leaving the with statement, and a     *)
(* step of one request (its timeout, failure, close or cancellation        *)
(* included) changes nothing of the other but the shared standard output.  *)
(***************************************************************************)
RECURSIVE ContentFramesOf(_, _)
ContentFramesOf(model, cs) ==
  IF cs = <<>> THEN <<>>
  ELSE <<ContentFrame(model, Head(cs))>> \o ContentFramesOf(model, Tail(cs))

OwnFrames ==
  ContentFramesOf(request.model, Fragments(received))
    \o (IF pc \in {"Finishing", "Closed"} \/ (pc = "Cancelled" /\ cancelledAt = "Finishing")
          THEN <<DoneChunk(request.model)>> ELSE <<>>)

OwnChannels ==
  /\ channel = "open" => pc \in {"Sending", "Receiving", "Yielding"}
  /\ peer.channel = "open" => peer.pc \in {"Sending", "Receiving", "Yielding"}
  /\ pc \in {"Receiving", "Yielding"} => channel = "open"
  /\ peer.pc \in {"Receiving", "Yielding"} => peer.channel = "open"

C16_RequestsIndependent ==
  /\ [](frames = OwnFrames /\ OwnChannels)
  /\ [][/\ peer' # peer => UNCHANGED own
        /\ own' # own => peer' = peer]_vars

\* the second request has timed out and finished while the first, its
\* channel still open, has just yielded a frame
C16_Witness ==
  /\ peer.pc = "Closed"
  /\ peer.channel = "closed"
  /\ Logged("Timeout waiting for agent response.")
  /\ pc = "Yielding"
  /\ channel = "open"
  /\ Len(frames) >= 1

(***************************************************************************)
(* The installer.  attempt_vscode_extension_install runs once each time    *)
(* the command-line interface starts; one action is one run of it, to its  *)
(* return.                                                                 *)
(*   environ     os.environ, the same at every invocation                  *)
(*   flags       the suffixes of the flag files that exist in ~/.openhands *)
(*   extension   whether the extension is installed in the editor          *)
(*   commands    the editor commands run so far, with what they returned   *)
(*   invocations the number of invocations so far                          *)
(*   outcome     the return statement the last invocation left by          *)
(* What the file system and the editor command do is an input of each      *)
(* invocation: whether the flag directory can be made and the flag tested  *)
(* (lines 38-46), how --list-extensions and --install-extension end,       *)
(* whether the bundled .vsix exists, and whether touch succeeds.           *)
(***************************************************************************)
MaxInvocations == 3

\* lines 99-104 and 134-144: one subprocess.run, as the history keeps it;
\* listed is the lines of stdout of a --list-extensions that exited with 0
Command(editor_command, option, run, listed) ==
  [command |-> editor_command, option |-> option, run |-> run, listed |-> listed]

\* lines 74-85: touch, an OSError swallowed
MarkInstallationSuccessful(flag_suffix, touch_ok) ==
  IF touch_ok THEN flags \cup {flag_suffix} ELSE flags

\* lines 48-71: the flag is absent; check the editor, then install
CheckAndInstall(e) ==
  \E list_run \in Runs, vsix_exists \in BOOLEAN, install_run \in Runs,
     touch_ok \in BOOLEAN :
    LET listing == Command(e.editor_command, "--list-extensions", list_run,
                           IF list_run = <<0>> THEN ListedExtensions(extension) ELSE {})
        install == Command(e.editor_command, "--install-extension", install_run, {})
    IN
    IF IsExtensionInstalled(list_run, extension)
      THEN /\ commands' = Append(commands, listing)
           /\ flags' = MarkInstallationSuccessful(e.flag_suffix, touch_ok)
           /\ outcome' = "already_installed"
           /\ UNCHANGED extension
    ELSE IF ~vsix_exists
      THEN /\ commands' = Append(commands, listing)
           /\ outcome' = "install_failed"
           /\ UNCHANGED <<flags, extension>>
    ELSE /\ commands' = commands \o <<listing, install>>
         /\ extension' = (extension \/ install_run = <<0>>)
         /\ IF BundledInstall(vsix_exists, install_run)
              THEN /\ flags' = MarkInstallationSuccessful(e.flag_suffix, touch_ok)
                   /\ outcome' = "installed"
              ELSE /\ outcome' = "install_failed"
                   /\ UNCHANGED flags

\* lines 9-71
AttemptVscodeExtensionInstall ==
  /\ invocations < MaxInvocations
  /\ invocations' = invocations + 1
  /\ UNCHANGED <<own, log, peer, environ>>
  /\ IF ~Supported(environ)
       THEN /\ outcome' = "unsupported"
            /\ UNCHANGED <<flags, extension, commands>>
       ELSE \E dir_ok \in BOOLEAN :
              IF ~dir_ok
                THEN /\ outcome' = "flag_error"
                     /\ UNCHANGED <<flags, extension, commands>>
              ELSE IF Editor(environ).flag_suffix \in flags
                THEN /\ outcome' = "flag_present"
                     /\ UNCHANGED <<flags, extension, commands>>
              ELSE CheckAndInstall(Editor(environ))

\* lines 48-53, 65-68: the user installs the extension by hand, as the
\* message printed after a failure asks
ManualInstall ==
  /\ ~extension
  /\ extension' = TRUE
  /\ UNCHANGED <<own, log, peer, environ, flags, commands, invocations, outcome>>

NextInstall ==
  \/ AttemptVscodeExtensionInstall
  \/ ManualInstall

\* the command-line interface in some environment, flag files of earlier
\* runs there or not, the extension installed or not
InitInstall ==
  /\ InitBridge
  /\ ~request.stream
  /\ environ \in Environments
  /\ flags \in SUBSET FlagSuffixes
  /\ extension \in BOOLEAN
  /\ commands = <<>>
  /\ invocations = 0
  /\ outcome = "none"

InstallSpec == InitInstall /\ [][NextInstall]_vars

(***************************************************************************)
(* C20: over the invocations of attempt_vscode_extension_install in one    *)
(* supported editor, the flag file is created only by an invocation whose  *)
(* last editor command was a --list-extensions that exited with 0 and      *)
(* listed the extension, or an --install-extension that exited with 0;     *)
(* after an invocation whose install failed the flag is absent; and once   *)
(* the flag exists no invocation runs an editor command.  As stated, the   *)
(* invocation that follows a failed one attempts the installation again    *)
(* (C20_RetryAlwaysInstalls).  It does not when the flag directory cannot  *)
(* be made or tested, and it does not when --list-extensions now lists the *)
(* extension; what holds is that the flag does not stop it, and that, the  *)
(* flag directory usable, it runs --list-extensions again and then either  *)
(* finds the extension and creates the flag or attempts the installation   *)
(* (C20_RetryUnlessFound).                                                 *)
(***************************************************************************)
FlagSuffix == Editor(environ).flag_suffix

Invoked == invocations' = invocations + 1

\* the last editor command of this step found the extension or installed it
SucceededNow ==
  /\ Len(commands') > Len(commands)
  /\ LET c == commands'[Len(commands')] IN
       /\ c.run = <<0>>
       /\ \/ c.option = "--list-extensions" /\ extension_id \in c.listed
          \/ c.option = "--install-extension"

FlagOnlyOnSuccess ==
  flags' # flags => Invoked /\ SucceededNow /\ flags' = flags \cup {FlagSuffix}

NoCommandOnceFlagged == FlagSuffix \in flags => commands' = commands

AfterFailure == Supported(environ) /\ outcome = "install_failed" /\ Invoked

====
